---- MODULE Spec2Model ----
(***************************************************************************)
(* Model of the arithmetic_parser crate (src/src/lib.rs): parse_string     *)
(* turns a text into a Tree with an operand/operator stack, Tree::execute  *)
(* evaluates the tree against a table of variables.                        *)
(*                                                                         *)
(* A text is a sequence of one-character strings, a token a non-empty      *)
(* sequence of characters.  Positions are 0-based as in the source.        *)
(* Option<T> is a sequence of length 0 (None) or 1 (Some).                 *)
(* An f64 is an exact signed rational, a signed zero, an infinity or NaN;  *)
(* rounding is not modelled.                                               *)
(***************************************************************************)
EXTENDS Integers, Sequences, FiniteSets, TLC

(***************************************************************************)
(* Bounds of the checked inputs.                                           *)
(***************************************************************************)
\* longest text drawn character by character
MaxLen == 3
\* most operators in a generated infix chain
MaxOps == 3
\* most tokens in a generated token sequence
MaxTok == 5

(***************************************************************************)
(* Option and small helpers.                                               *)
(***************************************************************************)
None == << >>
Some(x) == << x >>

At(seq, pos) == seq[pos + 1]

Slice(seq, from, to) == SubSeq(seq, from + 1, to)

RECURSIVE Flatten(_)
Flatten(seqs) ==
    IF seqs = << >> THEN << >> ELSE Head(seqs) \o Flatten(Tail(seqs))

(***************************************************************************)
(* f64 values.                                                             *)
(***************************************************************************)
Abs(i) == IF i < 0 THEN -i ELSE i

RECURSIVE GCD(_, _)
GCD(a, b) == IF b = 0 THEN a ELSE GCD(b, a % b)

NaN == [k |-> "nan", s |-> 1, n |-> 0, d |-> 0]
Inf(s) == [k |-> "inf", s |-> s, n |-> 0, d |-> 0]
Fin(s, n, d) ==
    IF n = 0 THEN [k |-> "fin", s |-> s, n |-> 0, d |-> 1]
    ELSE [k |-> "fin", s |-> s, n |-> n \div GCD(n, d), d |-> d \div GCD(n, d)]
Int64(i) == Fin(IF i < 0 THEN -1 ELSE 1, Abs(i), 1)

IsZero(a) == a.k = "fin" /\ a.n = 0

Neg(a) == IF a.k = "nan" THEN a ELSE [a EXCEPT !.s = -a.s]

FAdd(a, b) ==
    IF a.k = "nan" \/ b.k = "nan" THEN NaN
    ELSE IF a.k = "inf" /\ b.k = "inf" THEN (IF a.s = b.s THEN a ELSE NaN)
    ELSE IF a.k = "inf" THEN a
    ELSE IF b.k = "inf" THEN b
    ELSE LET num == a.s * a.n * b.d + b.s * b.n * a.d
             den == a.d * b.d
         IN IF num = 0
            THEN Fin(IF IsZero(a) /\ IsZero(b) /\ a.s = b.s THEN a.s ELSE 1, 0, 1)
            ELSE Fin(IF num < 0 THEN -1 ELSE 1, Abs(num), den)

FSub(a, b) == FAdd(a, Neg(b))

FMul(a, b) ==
    IF a.k = "nan" \/ b.k = "nan" THEN NaN
    ELSE IF (a.k = "inf" /\ IsZero(b)) \/ (IsZero(a) /\ b.k = "inf") THEN NaN
    ELSE IF a.k = "inf" \/ b.k = "inf" THEN Inf(a.s * b.s)
    ELSE Fin(a.s * b.s, a.n * b.n, a.d * b.d)

FDiv(a, b) ==
    IF a.k = "nan" \/ b.k = "nan" THEN NaN
    ELSE IF a.k = "inf" /\ b.k = "inf" THEN NaN
    ELSE IF IsZero(a) /\ IsZero(b) THEN NaN
    ELSE IF a.k = "inf" THEN Inf(a.s * b.s)
    ELSE IF b.k = "inf" THEN Fin(a.s * b.s, 0, 1)
    ELSE IF IsZero(b) THEN Inf(a.s * b.s)
    ELSE Fin(a.s * b.s, a.n * b.d, a.d * b.n)

(***************************************************************************)
(* Operator.                                                               *)
(***************************************************************************)
OPEN_PARENTHESIS == "("
CLOSED_PARENTHESIS == ")"

Operator == {"Plus", "Minus", "Star", "Slash"}

get_priority_flat(operator) == 0

get_priority(operator) ==
    CASE operator = "Plus" -> 0
      [] operator = "Minus" -> 0
      [] operator = "Star" -> 1
      [] operator = "Slash" -> 1

execute_binary(operator, x, y) ==
    CASE operator = "Plus" -> FAdd(x, y)
      [] operator = "Minus" -> FSub(x, y)
      [] operator = "Star" -> FMul(x, y)
      [] operator = "Slash" -> FDiv(x, y)

(***************************************************************************)
(* Tree and ParsedToken.                                                   *)
(***************************************************************************)
NumberLeaf(n) == [t |-> "NumberLeaf", n |-> n]
VariableLeaf(x) == [t |-> "VariableLeaf", x |-> x]
Node(node, left_operand, right_operand) ==
    [t |-> "Node", node |-> node, left_operand |-> left_operand,
     right_operand |-> right_operand]

Operand(tree) == [p |-> "Operand", tree |-> tree]
OperatorToken(operator) == [p |-> "Operator", operator |-> operator]

is_operand(parsed_token) == parsed_token.p = "Operand"
is_operator(parsed_token) == parsed_token.p = "Operator"

peek(vec) == IF vec # << >> THEN Some(vec[Len(vec)]) ELSE None

\* pop_operand / pop_operator: the popped value (None when the top is of the
\* other kind or the stack is empty) and the stack left behind
pop_operand(token_stack) ==
    IF peek(token_stack) # None /\ is_operand(peek(token_stack)[1])
    THEN [value |-> Some(token_stack[Len(token_stack)].tree),
          stack |-> SubSeq(token_stack, 1, Len(token_stack) - 1)]
    ELSE [value |-> None, stack |-> token_stack]

pop_operator(token_stack) ==
    IF peek(token_stack) # None /\ is_operator(peek(token_stack)[1])
    THEN [value |-> Some(token_stack[Len(token_stack)].operator),
          stack |-> SubSeq(token_stack, 1, Len(token_stack) - 1)]
    ELSE [value |-> None, stack |-> token_stack]

(***************************************************************************)
(* Tokenization in parse_string.                                           *)
(***************************************************************************)
\* str::replace(s, from, " from ") for a one-character pattern
replace(s, from) ==
    Flatten([i \in 1..Len(s) |->
                IF s[i] = from THEN <<" ", from, " ">> ELSE <<s[i]>>])

\* s.split(' '): the pieces between the spaces, empty pieces included
RECURSIVE split(_, _)
split(s, cur) ==
    IF s = << >> THEN <<cur>>
    ELSE IF Head(s) = " " THEN <<cur>> \o split(Tail(s), << >>)
    ELSE split(Tail(s), Append(cur, Head(s)))

tokenize(s) ==
    LET s1 == replace(s, OPEN_PARENTHESIS)
        s2 == replace(s1, CLOSED_PARENTHESIS)
        s3 == replace(s2, "+")
        s4 == replace(s3, "-")
        s5 == replace(s4, "*")
        s6 == replace(s5, "/")
    IN SelectSeq(split(s6, << >>), LAMBDA t : t # << >>)

(***************************************************************************)
(* Token classification.                                                   *)
(***************************************************************************)
Digits == {"0", "1", "2", "3", "4", "5", "6", "7", "8", "9"}

DigitValue(c) ==
    CASE c = "0" -> 0 [] c = "1" -> 1 [] c = "2" -> 2 [] c = "3" -> 3
      [] c = "4" -> 4 [] c = "5" -> 5 [] c = "6" -> 6 [] c = "7" -> 7
      [] c = "8" -> 8 [] c = "9" -> 9

RECURSIVE Decimal(_)
Decimal(token) ==
    IF token = << >> THEN 0
    ELSE 10 * Decimal(SubSeq(token, 1, Len(token) - 1))
         + DigitValue(token[Len(token)])

\* token.parse::<f64>() on the characters of the checked texts, which have
\* no sign or point in a token and spell no exponent, "inf" or "nan": a
\* non-empty run of decimal digits is a number, every other token is not
try_parse_number(token) ==
    IF token # << >> /\ \A i \in 1..Len(token) : token[i] \in Digits
    THEN Some(Int64(Decimal(token)))
    ELSE None

try_parse_variable(token) == Some(token)

try_parse_operator(token) ==
    CASE token = <<"+">> -> Some("Plus")
      [] token = <<"-">> -> Some("Minus")
      [] token = <<"*">> -> Some("Star")
      [] token = <<"/">> -> Some("Slash")
      [] OTHER -> None

\* the loop stopping one token before the last
RECURSIVE closing_loop_short(_, _, _)
closing_loop_short(tokens, current_pos, count) ==
    IF count > 0 /\ current_pos < Len(tokens) - 2
    THEN LET next_pos == current_pos + 1
         IN closing_loop_short(tokens, next_pos,
                IF At(tokens, next_pos) = <<OPEN_PARENTHESIS>> THEN count + 1
                ELSE IF At(tokens, next_pos) = <<CLOSED_PARENTHESIS>> THEN count - 1
                ELSE count)
    ELSE [current_pos |-> current_pos, count |-> count]

\* Ok(position) or Err(position of the unbalanced parenthesis)
RECURSIVE closing_loop(_, _, _)
closing_loop(tokens, current_pos, count) ==
    IF count > 0 /\ current_pos < Len(tokens) - 1
    THEN LET next_pos == current_pos + 1
         IN closing_loop(tokens, next_pos,
                IF At(tokens, next_pos) = <<OPEN_PARENTHESIS>> THEN count + 1
                ELSE IF At(tokens, next_pos) = <<CLOSED_PARENTHESIS>> THEN count - 1
                ELSE count)
    ELSE [current_pos |-> current_pos, count |-> count]

\* the first closing parenthesis after pos, whatever opens in between
RECURSIVE first_closing_loop(_, _, _)
first_closing_loop(tokens, current_pos, count) ==
    IF count > 0 /\ current_pos < Len(tokens) - 1
    THEN first_closing_loop(tokens, current_pos + 1,
            IF At(tokens, current_pos + 1) = <<CLOSED_PARENTHESIS>>
            THEN count - 1 ELSE count)
    ELSE [current_pos |-> current_pos, count |-> count]

find_first_closing_parenthesis_pos(tokens, pos) ==
    LET end == first_closing_loop(tokens, pos, 1)
    IN IF end.count = 0
       THEN [ok |-> TRUE, pos |-> end.current_pos]
       ELSE [ok |-> FALSE, pos |-> pos]

find_closing_parenthesis_pos(tokens, pos) ==
    LET end == closing_loop(tokens, pos, 1)
    IN IF end.count = 0
       THEN [ok |-> TRUE, pos |-> end.current_pos]
       ELSE [ok |-> FALSE, pos |-> pos]

(***************************************************************************)
(* Stack reduction.  A reduction yields the new stack, or panic = TRUE     *)
(* when an assert!, an unwrap() of None or a panic!() ends the process.    *)
(***************************************************************************)
Panicked == [panic |-> TRUE, stack |-> << >>]
Reduced(token_stack) == [panic |-> FALSE, stack |-> token_stack]

RECURSIVE unary_loop(_)
unary_loop(token_stack) ==
    LET stack_length == Len(token_stack)
    IN IF stack_length >= 2
          /\ is_operator(At(token_stack, stack_length - 2))
          /\ (stack_length = 2 \/ is_operator(At(token_stack, stack_length - 3)))
       THEN LET operand == pop_operand(token_stack)
                operator == pop_operator(operand.stack)
            IN IF operand.value = None \/ operator.value = None
               THEN Panicked
               ELSE unary_loop(Append(operator.stack,
                        Operand(Node(operator.value[1], None, operand.value[1]))))
       ELSE Reduced(token_stack)

resolve_unary_operators(token_stack) ==
    IF ~(Len(token_stack) >= 1) THEN Panicked
    ELSE IF ~is_operand(At(token_stack, Len(token_stack) - 1)) THEN Panicked
    ELSE unary_loop(token_stack)

RECURSIVE binary_loop(_, _)
binary_loop(token_stack, minimum_priority) ==
    LET stack_length == Len(token_stack)
    IN IF stack_length >= 3
          /\ is_operand(At(token_stack, stack_length - 3))
          /\ is_operator(At(token_stack, stack_length - 2))
          /\ is_operand(At(token_stack, stack_length - 1))
       THEN IF get_priority(At(token_stack, stack_length - 2).operator)
                  < minimum_priority
            THEN Reduced(token_stack)
            ELSE LET right_operand == pop_operand(token_stack)
                     operator == pop_operator(right_operand.stack)
                     left_operand == pop_operand(operator.stack)
                 IN IF right_operand.value = None \/ operator.value = None
                       \/ left_operand.value = None
                    THEN Panicked
                    ELSE binary_loop(Append(left_operand.stack,
                             Operand(Node(operator.value[1],
                                          Some(left_operand.value[1]),
                                          right_operand.value[1]))),
                             minimum_priority)
       ELSE Reduced(token_stack)

\* the reduction without its two assertions
resolve_binary_operators_unchecked(token_stack, minimum_priority) ==
    binary_loop(token_stack, minimum_priority)

resolve_binary_operators(token_stack, minimum_priority) ==
    IF ~(Len(token_stack) >= 1) THEN Panicked
    ELSE IF ~is_operand(At(token_stack, Len(token_stack) - 1)) THEN Panicked
    ELSE binary_loop(token_stack, minimum_priority)

(***************************************************************************)
(* Tree::execute.                                                          *)
(***************************************************************************)
ExecOk(n) == [kind |-> "Ok", value |-> Some(n), err |-> None]
ExecErr(x) ==
    [kind |-> "Err", value |-> None,
     err |-> Some([msg |-> "Value for variable {} must be provided", arg |-> x])]
ExecPanic == [kind |-> "Panic", value |-> None, err |-> None]

\* execute with a missing variable read as 0
RECURSIVE execute_defaulting(_, _)
execute_defaulting(tree, variables) ==
    CASE tree.t = "NumberLeaf" -> ExecOk(tree.n)
      [] tree.t = "VariableLeaf" ->
            IF tree.x \in DOMAIN variables
            THEN ExecOk(variables[tree.x])
            ELSE ExecOk(Int64(0))
      [] tree.t = "Node" ->
            LET left == IF tree.left_operand # None
                        THEN execute_defaulting(tree.left_operand[1], variables)
                        ELSE ExecPanic
            IN IF left.kind # "Ok" THEN left
               ELSE LET right == execute_defaulting(tree.right_operand, variables)
                    IN IF right.kind # "Ok" THEN right
                       ELSE ExecOk(execute_binary(tree.node, left.value[1],
                                                  right.value[1]))

RECURSIVE execute(_, _)
execute(tree, variables) ==
    CASE tree.t = "NumberLeaf" -> ExecOk(tree.n)
      [] tree.t = "VariableLeaf" ->
            IF tree.x \in DOMAIN variables
            THEN ExecOk(variables[tree.x])
            ELSE ExecErr(tree.x)
      [] tree.t = "Node" ->
            LET left == IF tree.left_operand # None
                        THEN execute(tree.left_operand[1], variables)
                        ELSE ExecPanic
            IN IF left.kind # "Ok" THEN left
               ELSE LET right == execute(tree.right_operand, variables)
                    IN IF right.kind # "Ok" THEN right
                       ELSE ExecOk(execute_binary(tree.node, left.value[1],
                                                  right.value[1]))

(***************************************************************************)
(* The checked inputs.                                                     *)
(***************************************************************************)
\* characters of the texts drawn character by character
Alphabet == {"3", "x", "+", "(", ")", " ", "\n", "\t", "$", ","}
\* operands and operators of the generated infix chains
InfixOperands == {<<"3">>, <<"x">>}
InfixOperators == {<<"+">>, <<"-">>, <<"*">>, <<"/">>}
\* tokens of the generated token sequences
TokAlphabet == {<<"3">>, <<"x">>, <<"+">>, <<"*">>, <<"(">>, <<")">>}

RECURSIVE Join(_)
Join(toks) ==
    IF toks = << >> THEN << >>
    ELSE IF Len(toks) = 1 THEN toks[1]
    ELSE toks[1] \o <<" ">> \o Join(Tail(toks))

CharTexts == UNION {[1..n -> Alphabet] : n \in 0..MaxLen}

InfixTexts ==
    UNION {{Join([i \in 1..(2 * k + 1) |->
                    IF i % 2 = 1 THEN operands[(i + 1) \div 2]
                    ELSE operators[i \div 2]]) :
                operands \in [1..(k + 1) -> InfixOperands],
                operators \in [1..k -> InfixOperators]} : k \in 0..MaxOps}

TokenTexts == {Join(toks) : toks \in UNION {[1..n -> TokAlphabet] : n \in 0..MaxTok}}

\* the expressions of the crate's tests and documentation
ExampleTexts ==
    { <<"2", " ", "+", " ", "3", " ", "*", " ", "4">>,
      <<"8", " ", "-", " ", "3", " ", "-", " ", "2">>,
      <<"(", "2", " ", "+", " ", "3", ")", " ", "*", " ", "4">>,
      <<"3", " ", "+", " ", "4", " ", "*", " ", "(", "2", " ", "+", " ",
        "y", "y", " ", "/", " ", "(", "3", "-", "x", "z", ")", " ", "*", " ",
        "(", "(", "5", ")", ")", ")">>,
      <<"(", "x", "+", "3", ")", "*", "4", "+", "(", "4", "+", "y", ")">>,
      <<"+", "(", "2", ",", "3", ",", "4", ")">>,
      <<"-", "x">>,
      <<"s", "q", "r", "t", " ", "4">>,
      <<"3", " ", "+", " ", "(", " ", ")">>,
      <<"a", "%", "b">>,
      <<"a", "(", "(", "f", ")", "(", "b", " ", "f", "e", "r", ")", ")">>,
      <<"a", "(", "(", "f", ")", "(", "b", " ", "f", "e", "r", ")">>,
      <<"2", "+", "3", "*", "4", "\n">> }

Texts == CharTexts \cup InfixTexts \cup TokenTexts \cup ExampleTexts

\* the variable tables handed to execute
VariableNames == {<<"x">>, <<"y">>}
VariableValues == {Int64(1), Int64(4)}
ExampleVariables == (<<"x", "z">> :> Int64(4)) @@ (<<"y", "y">> :> Int64(1))
VariableTables ==
    UNION {[names -> VariableValues] : names \in SUBSET VariableNames}
        \cup {ExampleVariables}

(***************************************************************************)
(* State.                                                                  *)
(***************************************************************************)
VARIABLES
    text,       \* the argument s of parse_string
    pc,         \* "start", "parsing", "parsed" or "executed"
    tokens,     \* the token vector parse_string hands to parse_tokens
    frames,     \* the active calls of parse_tokens, innermost last
    outcome,    \* what parse_string returned: Ok(tree), Err(message) or a panic
    variables,  \* the table handed to the last execute
    result      \* what the last execute returned

vars == <<text, pc, tokens, frames, outcome, variables, result>>

\* a call of parse_tokens: its argument, the locals of intermediate_parse
\* (current_pos, result), the closing position of the group whose contents
\* an inner call is parsing, and the locals of the reduction loop
Frame(toks) ==
    [tokens |-> toks, current_pos |-> 0, result |-> << >>,
     closing_parenthesis_pos |-> 0, next |-> 0, token_stack |-> << >>]

NoOutcome == [kind |-> "None", tree |-> None, err |-> None]
ParseOk(tree) == [kind |-> "Ok", tree |-> Some(tree), err |-> None]
ParseErr(msg, arg) ==
    [kind |-> "Err", tree |-> None, err |-> Some([msg |-> msg, arg |-> arg])]
ParsePanic == [kind |-> "Panic", tree |-> None, err |-> None]
NoResult == [kind |-> "None", value |-> None, err |-> None]

Top == frames[Len(frames)]
Callers == SubSeq(frames, 1, Len(frames) - 1)

Init ==
    /\ text \in Texts
    /\ pc = "start"
    /\ tokens = << >>
    /\ frames = << >>
    /\ outcome = NoOutcome
    /\ variables = << >>
    /\ result = NoResult

\* parse_string ends: an Err travels through every `?`, a panic unwinds
Finish(out) ==
    /\ pc' = "parsed"
    /\ frames' = << >>
    /\ outcome' = out

\* parse_string: tokenization and the call of parse_tokens
ParseString ==
    /\ pc = "start"
    /\ tokens' = tokenize(text)
    /\ frames' = <<Frame(tokens')>>
    /\ pc' = "parsing"
    /\ UNCHANGED <<text, outcome, variables, result>>

\* one iteration of the loop of intermediate_parse: try_parse_next
TryParseNext ==
    /\ pc = "parsing"
    /\ Top.current_pos < Len(Top.tokens)
    /\ LET toks == Top.tokens
           pos == Top.current_pos
           operator == try_parse_operator(At(toks, pos))
           number == try_parse_number(At(toks, pos))
           variable == try_parse_variable(At(toks, pos))
           Push(parsed_token) ==
               /\ frames' = Append(Callers,
                      [Top EXCEPT !.result = Append(@, parsed_token),
                                  !.current_pos = pos + 1])
               /\ UNCHANGED <<pc, outcome>>
       IN IF At(toks, pos) = <<OPEN_PARENTHESIS>>
          THEN LET closing == find_closing_parenthesis_pos(toks, pos)
               IN IF ~closing.ok
                  THEN Finish(ParseErr("Parenthesis at pos {} is not balanced!",
                                       closing.pos))
                  ELSE /\ frames' = Append(Callers,
                              [Top EXCEPT !.closing_parenthesis_pos = closing.pos])
                              \o <<Frame(Slice(toks, pos + 1, closing.pos))>>
                       /\ UNCHANGED <<pc, outcome>>
          ELSE IF operator # None THEN Push(OperatorToken(operator[1]))
          ELSE IF number # None THEN Push(Operand(NumberLeaf(number[1])))
          ELSE IF variable # None THEN Push(Operand(VariableLeaf(variable[1])))
          ELSE Finish(ParseErr("Cannot parse token {}", At(toks, pos)))
    /\ UNCHANGED <<text, tokens, variables, result>>

\* one iteration of the loop of parse_tokens over the parsed tokens
ProcessToken ==
    /\ pc = "parsing"
    /\ Top.current_pos = Len(Top.tokens)
    /\ Top.next < Len(Top.result)
    /\ LET parsed_token == At(Top.result, Top.next)
           reduced == IF is_operand(parsed_token)
                      THEN resolve_unary_operators(
                               Append(Top.token_stack, parsed_token))
                      ELSE resolve_binary_operators(Top.token_stack,
                               get_priority(parsed_token.operator))
       IN IF reduced.panic
          THEN Finish(ParsePanic)
          ELSE /\ frames' = Append(Callers,
                      [Top EXCEPT !.next = @ + 1,
                                  !.token_stack =
                                      IF is_operand(parsed_token)
                                      THEN reduced.stack
                                      ELSE Append(reduced.stack, parsed_token)])
               /\ UNCHANGED <<pc, outcome>>
    /\ UNCHANGED <<text, tokens, variables, result>>

\* the end of parse_tokens: the last reduction, the assert and the return,
\* to try_parse_next of the calling parse_tokens or to parse_string
Return ==
    /\ pc = "parsing"
    /\ Top.current_pos = Len(Top.tokens)
    /\ Top.next = Len(Top.result)
    /\ LET reduced == resolve_binary_operators(Top.token_stack, 0)
           operand == peek(reduced.stack)
       IN IF reduced.panic \/ ~(Len(reduced.stack) = 1)
          THEN Finish(ParsePanic)
          ELSE IF ~is_operand(operand[1])
          THEN Finish(ParsePanic)
          ELSE IF Callers = << >>
          THEN Finish(ParseOk(operand[1].tree))
          ELSE LET caller == Callers[Len(Callers)]
               IN /\ frames' = Append(SubSeq(Callers, 1, Len(Callers) - 1),
                         [caller EXCEPT
                             !.result = Append(@, Operand(operand[1].tree)),
                             !.current_pos = caller.closing_parenthesis_pos + 1])
                  /\ UNCHANGED <<pc, outcome>>
    /\ UNCHANGED <<text, tokens, variables, result>>

\* Tree::execute on the tree parse_string returned
Execute ==
    /\ pc \in {"parsed", "executed"}
    /\ outcome.kind = "Ok"
    /\ \E table \in VariableTables :
          /\ variables' = table
          /\ result' = execute(outcome.tree[1], table)
    /\ pc' = "executed"
    /\ UNCHANGED <<text, tokens, frames, outcome>>

Next ==
    \/ ParseString
    \/ TryParseNext
    \/ ProcessToken
    \/ Return
    \/ Execute

Spec == Init /\ [][Next]_vars

(***************************************************************************)
(* The documented reading of a text, against which the claims are stated.  *)
(***************************************************************************)
Whitespace == {" ", "\n", "\t"}
Symbols == {"(", ")", ",", "+", "-", "*", "/"}
Letters == {"a", "b", "c", "d", "e", "f", "g", "h", "i", "j", "k", "l", "m",
            "n", "o", "p", "q", "r", "s", "t", "u", "v", "w", "x", "y", "z"}

\* the lexical tokens of a text: split on whitespace and around every symbol
RECURSIVE Lex(_, _)
Lex(s, cur) ==
    LET flush == IF cur = << >> THEN << >> ELSE <<cur>>
    IN IF s = << >> THEN flush
       ELSE IF Head(s) \in Whitespace THEN flush \o Lex(Tail(s), << >>)
       ELSE IF Head(s) \in Symbols THEN flush \o <<<<Head(s)>>>> \o Lex(Tail(s), << >>)
       ELSE Lex(Tail(s), Append(cur, Head(s)))

LexTokens == Lex(text, << >>)

CharsOf(s) == {s[i] : i \in 1..Len(s)}

IsNumberToken(tok) == tok # << >> /\ CharsOf(tok) \subseteq Digits
IsIdentifierToken(tok) ==
    /\ tok # << >>
    /\ CharsOf(tok) \subseteq (Digits \cup Letters)
    /\ ~IsNumberToken(tok)
    /\ tok # <<"s", "q", "r", "t">>
IsOperandToken(tok) == IsNumberToken(tok) \/ IsIdentifierToken(tok)
IsInfixToken(tok) == tok \in {<<"+">>, <<"-">>, <<"*">>, <<"/">>}

InfixOperator(tok) ==
    CASE tok = <<"+">> -> "Plus" [] tok = <<"-">> -> "Minus"
      [] tok = <<"*">> -> "Star" [] tok = <<"/">> -> "Slash"
Binds(tok) == IF tok \in {<<"*">>, <<"/">>} THEN 1 ELSE 0

LeafOf(tok) ==
    IF IsNumberToken(tok) THEN NumberLeaf(Int64(Decimal(tok))) ELSE VariableLeaf(tok)

\* only blanks separate the tokens of the text
OnlyBlanks == \A i \in 1..Len(text) : text[i] \notin {"\n", "\t"}

\* operand (operator operand)*
WellFormedInfix(toks) ==
    /\ Len(toks) % 2 = 1
    /\ \A i \in 1..Len(toks) :
          IF i % 2 = 1 THEN IsOperandToken(toks[i]) ELSE IsInfixToken(toks[i])

\* nesting depth after the first i tokens
RECURSIVE DepthAt(_, _)
DepthAt(toks, i) ==
    IF i = 0 THEN 0
    ELSE DepthAt(toks, i - 1)
         + (IF toks[i] = <<"(">> THEN 1 ELSE IF toks[i] = <<")">> THEN -1 ELSE 0)

Balanced(toks) ==
    /\ \A i \in 1..Len(toks) : DepthAt(toks, i) >= 0
    /\ DepthAt(toks, Len(toks)) = 0

Max(S) == CHOOSE m \in S : \A o \in S : o <= m

\* the tree of the standard reading: * and / bind tighter than + and -, equal
\* precedence associates to the left, a group is one operand; None when the
\* tokens are not a well-formed expression
RECURSIVE StandardTree(_)
StandardTree(toks) ==
    LET n == Len(toks)
        top == {i \in 1..n : IsInfixToken(toks[i]) /\ DepthAt(toks, i) = 0}
        low == {i \in top : Binds(toks[i]) = 0}
        at == IF low # {} THEN Max(low) ELSE Max(top)
        left == StandardTree(SubSeq(toks, 1, at - 1))
        right == StandardTree(SubSeq(toks, at + 1, n))
    IN IF n = 0 \/ ~Balanced(toks) THEN None
       ELSE IF n = 1
       THEN (IF IsOperandToken(toks[1]) THEN Some(LeafOf(toks[1])) ELSE None)
       ELSE IF top # {}
       THEN (IF left # None /\ right # None
             THEN Some(Node(InfixOperator(toks[at]), Some(left[1]), right[1]))
             ELSE None)
       ELSE IF toks[1] = <<"(">> /\ \A i \in 1..(n - 1) : DepthAt(toks, i) > 0
       THEN StandardTree(SubSeq(toks, 2, n - 1))
       ELSE None

\* the value of a tree all of whose variables are bound
RECURSIVE ValueOf(_, _)
ValueOf(tree, table) ==
    CASE tree.t = "NumberLeaf" -> tree.n
      [] tree.t = "VariableLeaf" -> table[tree.x]
      [] tree.t = "Node" ->
            LET l == ValueOf(tree.left_operand[1], table)
                r == ValueOf(tree.right_operand, table)
            IN CASE tree.node = "Plus" -> FAdd(l, r)
                 [] tree.node = "Minus" -> FSub(l, r)
                 [] tree.node = "Star" -> FMul(l, r)
                 [] tree.node = "Slash" -> FDiv(l, r)

\* the variables a tree refers to
RECURSIVE Referenced(_)
Referenced(tree) ==
    CASE tree.t = "NumberLeaf" -> {}
      [] tree.t = "VariableLeaf" -> {tree.x}
      [] tree.t = "Node" ->
            (IF tree.left_operand = None THEN {}
             ELSE Referenced(tree.left_operand[1]))
                \cup Referenced(tree.right_operand)

Restrict(table, names) == [x \in (DOMAIN table) \cap names |-> table[x]]

Parsed == pc \in {"parsed", "executed"}

\* some group of the text has nothing between its parentheses
HasEmptyGroup ==
    \E i \in 1..(Len(LexTokens) - 1) :
        LexTokens[i] = <<"(">> /\ LexTokens[i + 1] = <<")">>

TextPrecedence == <<"2", " ", "+", " ", "3", " ", "*", " ", "4">>
TextLeftAssoc == <<"8", " ", "-", " ", "3", " ", "-", " ", "2">>
TextGrouping == <<"(", "2", " ", "+", " ", "3", ")", " ", "*", " ", "4">>
TextComposite ==
    <<"3", " ", "+", " ", "4", " ", "*", " ", "(", "2", " ", "+", " ",
      "y", "y", " ", "/", " ", "(", "3", "-", "x", "z", ")", " ", "*", " ",
      "(", "(", "5", ")", ")", ")">>
TextNary == <<"+", "(", "2", ",", "3", ",", "4", ")">>

(***************************************************************************)
(* C1.  A well-formed parenthesis-free infix expression parses, and        *)
(* execute returns the value of its standard reading: * and / bind tighter *)
(* than + and -, equal precedence associates left to right                 *)
(* ("2 + 3 * 4" is 14, "8 - 3 - 2" is 3).                                  *)
(***************************************************************************)
C1_InfixValue ==
    (Parsed /\ OnlyBlanks /\ WellFormedInfix(LexTokens)) =>
        /\ outcome.kind = "Ok"
        /\ (pc = "executed"
              /\ Referenced(StandardTree(LexTokens)[1]) \subseteq DOMAIN variables)
           => result = ExecOk(ValueOf(StandardTree(LexTokens)[1], variables))
        /\ (pc = "executed" /\ text = TextPrecedence) => result = ExecOk(Int64(14))
        /\ (pc = "executed" /\ text = TextLeftAssoc) => result = ExecOk(Int64(3))

C1_Witness ==
    /\ pc = "executed"
    /\ text = TextPrecedence
    /\ result = ExecOk(Int64(14))

(***************************************************************************)
(* C2.  A parenthesized group is parsed as a complete sub-expression and   *)
(* stands as one operand of the enclosing expression at any nesting depth: *)
(* the tree is the tree of the standard reading, "(2 + 3) * 4" is 20 and   *)
(* "3 + 4 * (2 + yy / (3-xz) * ((5)))" with xz = 4, yy = 1 is -9.          *)
(***************************************************************************)
HasGroup == \E i \in 1..Len(LexTokens) : LexTokens[i] = <<"(">>

C2_Grouping ==
    (Parsed /\ OnlyBlanks /\ HasGroup /\ StandardTree(LexTokens) # None) =>
        /\ outcome.kind = "Ok"
        /\ outcome.tree = StandardTree(LexTokens)
        /\ (pc = "executed"
              /\ Referenced(StandardTree(LexTokens)[1]) \subseteq DOMAIN variables)
           => result = ExecOk(ValueOf(StandardTree(LexTokens)[1], variables))
        /\ (pc = "executed" /\ text = TextGrouping) => result = ExecOk(Int64(20))
        /\ (pc = "executed" /\ text = TextComposite /\ variables = ExampleVariables)
           => result = ExecOk(Int64(-9))

C2_Witness ==
    /\ pc = "executed"
    /\ text = TextComposite
    /\ variables = ExampleVariables
    /\ result = ExecOk(Int64(-9))

(***************************************************************************)
(* C3.  A non-empty sequence of operands and operators that is not a       *)
(* well-formed expression (a leftover operator as in "3 +", several        *)
(* operands as in "3 4", an operator where an operand is expected) makes   *)
(* parse_string return an error value; the process is never aborted.       *)
(***************************************************************************)
C3_MalformedIsError ==
    (/\ pc = "parsed"
     /\ OnlyBlanks
     /\ LexTokens # << >>
     /\ \A i \in 1..Len(LexTokens) :
           IsOperandToken(LexTokens[i]) \/ IsInfixToken(LexTokens[i])
     /\ ~WellFormedInfix(LexTokens))
    => outcome.kind = "Err"

(***************************************************************************)
(* C4.  parse_string on a text with unbalanced parentheses (here: one none *)
(* of whose groups is empty) returns an error value, never a tree.         *)
(***************************************************************************)
C4_UnbalancedIsError ==
    (pc = "parsed" /\ ~Balanced(LexTokens) /\ ~HasEmptyGroup)
    => outcome.kind = "Err"

(***************************************************************************)
(* C5.  execute on a parsed tree returns an error value exactly when a     *)
(* variable of the tree has no entry in the table, and the error names a   *)
(* missing variable; otherwise it returns a number; bindings of variables  *)
(* the tree does not refer to do not change the result.                    *)
(***************************************************************************)
C5_ExecuteErrors ==
    pc = "executed" =>
        LET tree == outcome.tree[1]
            missing == Referenced(tree) \ DOMAIN variables
        IN /\ result.kind \in {"Ok", "Err"}
           /\ result.kind = "Err" <=> missing # {}
           /\ result.kind = "Err" => result.err[1].arg \in missing
           /\ result.kind = "Ok" => result.value # None
           /\ \A table \in VariableTables :
                 Restrict(table, Referenced(tree))
                     = Restrict(variables, Referenced(tree))
                 => execute(tree, table) = result

C5_Witness ==
    /\ pc = "executed"
    /\ outcome.tree[1].t = "Node"
    /\ result.kind = "Err"
    /\ DOMAIN variables # {}
    /\ Referenced(outcome.tree[1]) \cap DOMAIN variables # {}

(***************************************************************************)
(* C6.  An operator in prefix position before a single operand is parsed   *)
(* as a unary node (no left operand) and evaluated with the unary meaning: *)
(* "-x" with x = 4 is -4, "sqrt 4" is 2.                                   *)
(***************************************************************************)
IsPrefixToken(tok) == tok \in {<<"+">>, <<"-">>, <<"s", "q", "r", "t">>}
PrefixOperator(tok) ==
    CASE tok = <<"+">> -> "Plus" [] tok = <<"-">> -> "Minus" [] OTHER -> "Sqrt"

C6_PrefixIsUnary ==
    (/\ Parsed
     /\ OnlyBlanks
     /\ Len(LexTokens) = 2
     /\ IsPrefixToken(LexTokens[1])
     /\ IsOperandToken(LexTokens[2]))
    => /\ outcome = ParseOk(Node(PrefixOperator(LexTokens[1]), None,
                                 LeafOf(LexTokens[2])))
       /\ (pc = "executed" /\ text = <<"-", "x">>
             /\ variables = (<<"x">> :> Int64(4)))
          => result = ExecOk(Int64(-4))
       /\ (pc = "executed" /\ text = <<"s", "q", "r", "t", " ", "4">>)
          => result = ExecOk(Int64(2))

(***************************************************************************)
(* C7.  The tokens of a group are split on its top-level commas into       *)
(* arguments, and a prefix operator applied to the group receives all of   *)
(* them: "+(2,3,4)" parses and evaluates to 9.                             *)
(***************************************************************************)
C7_NaryPrefix ==
    (Parsed /\ text = TextNary) =>
        /\ outcome.kind = "Ok"
        /\ pc = "executed" => result = ExecOk(Int64(9))

(***************************************************************************)
(* C8.  An empty or whitespace-only group, as in "()" or "3 + ( )", makes  *)
(* parse_string return an error value, not a tree and not an abort.        *)
(***************************************************************************)
C8_EmptyGroupIsError ==
    (pc = "parsed" /\ Balanced(LexTokens) /\ HasEmptyGroup) => outcome.kind = "Err"

(***************************************************************************)
(* C9.  A token with an unrecognized character ("$", "a%b") makes parsing  *)
(* fail with an error value that carries the offending token; it is never  *)
(* accepted as a variable name (here: in a text of balanced, non-empty     *)
(* groups, so that no other error comes first).                            *)
(***************************************************************************)
Unrecognized(tok) ==
    \E i \in 1..Len(tok) : tok[i] \notin (Digits \cup Letters \cup Symbols)

C9_UnrecognizedIsError ==
    (/\ pc = "parsed"
     /\ Balanced(LexTokens)
     /\ ~HasEmptyGroup
     /\ \E i \in 1..Len(LexTokens) : Unrecognized(LexTokens[i])) =>
        /\ outcome.kind = "Err"
        /\ \E i \in 1..Len(LexTokens) :
              Unrecognized(LexTokens[i]) /\ outcome.err[1].arg = LexTokens[i]

(***************************************************************************)
(* C10.  Two texts that differ only in the whitespace (blanks, tabs,       *)
(* newlines, a trailing newline included) between tokens or around         *)
(* parentheses and operators have the same token sequence, hence the same  *)
(* parse result: the tokens of a text are those of the text with every     *)
(* whitespace character written as a blank.                                *)
(***************************************************************************)
Blanked(s) == [i \in 1..Len(s) |-> IF s[i] \in Whitespace THEN " " ELSE s[i]]

C10_WhitespaceInsensitive ==
    pc # "start" => tokens = tokenize(Blanked(text))

(***************************************************************************)
(* C11.  For every token sequence and every position pos of an open        *)
(* parenthesis, find_closing_parenthesis_pos returns Ok(j) with j the      *)
(* smallest index greater than pos at which the nesting depth counted from *)
(* pos (plus one per open, minus one per close) is back at zero, and an    *)
(* error when there is no such index before the end of the tokens.         *)
(***************************************************************************)
\* the nesting depth over the positions pos..j (0-based)
DepthOver(toks, pos, j) ==
    Cardinality({i \in pos..j : At(toks, i) = <<"(">>})
        - Cardinality({i \in pos..j : At(toks, i) = <<")">>})

ClosingPositions(toks, pos) ==
    {j \in (pos + 1)..(Len(toks) - 1) : DepthOver(toks, pos, j) = 0}

ClosesCorrectly(toks) ==
    \A pos \in 0..(Len(toks) - 1) :
        At(toks, pos) = <<"(">> =>
            LET found == find_closing_parenthesis_pos(toks, pos)
                closing == ClosingPositions(toks, pos)
            IN /\ found.ok <=> closing # {}
               /\ found.ok =>
                     /\ found.pos \in closing
                     /\ \A j \in closing : found.pos <= j

C11_ClosingPosition ==
    /\ ClosesCorrectly(tokens)
    /\ \A f \in 1..Len(frames) :
          /\ ClosesCorrectly(frames[f].tokens)
          /\ (f < Len(frames) /\ frames[f].current_pos < Len(frames[f].tokens))
             => /\ frames[f].closing_parenthesis_pos
                       \in ClosingPositions(frames[f].tokens, frames[f].current_pos)
                /\ \A j \in ClosingPositions(frames[f].tokens,
                                             frames[f].current_pos) :
                       frames[f].closing_parenthesis_pos <= j

TestClosingTokens ==
    <<<<"a">>, <<"(">>, <<"(">>, <<"f">>, <<")">>, <<"(">>, <<"b">>,
      <<"f", "e", "r">>, <<")">>, <<")">>>>

C11_Witness ==
    /\ pc = "parsing"
    /\ tokens = TestClosingTokens
    /\ Len(frames) = 2
    /\ frames[1].current_pos = 1
    /\ frames[1].closing_parenthesis_pos = 9

(***************************************************************************)
(* C12.  Invariant of parse_tokens.  As claimed: after every token that is *)
(* processed without aborting, the stack strictly alternates operand,      *)
(* operator, operand, ... starting with an operand, so                     *)
(* resolve_unary_operators never builds a node, every Node of a returned   *)
(* tree has a left operand and execute on a parsed tree never reaches      *)
(* unimplemented!().                                                       *)
(* As amended: the stack starts with an operand and every operator on it   *)
(* lies directly on top of an operand, while operands may lie on operands  *)
(* (as after "3 4"); the consequences are as claimed.                      *)
(***************************************************************************)
Alternates(token_stack) ==
    \A i \in 1..Len(token_stack) :
        IF i % 2 = 1 THEN is_operand(token_stack[i])
        ELSE is_operator(token_stack[i])

OperatorsOnOperands(token_stack) ==
    \A i \in 1..Len(token_stack) :
        is_operator(token_stack[i]) => (i > 1 /\ is_operand(token_stack[i - 1]))

RECURSIVE AllBinary(_)
AllBinary(tree) ==
    tree.t = "Node" =>
        /\ tree.left_operand # None
        /\ AllBinary(tree.left_operand[1])
        /\ AllBinary(tree.right_operand)

\* the operand about to be pushed leaves resolve_unary_operators nothing to do
NoUnaryNode ==
    (/\ pc = "parsing"
     /\ Top.current_pos = Len(Top.tokens)
     /\ Top.next < Len(Top.result)
     /\ is_operand(At(Top.result, Top.next)))
    => resolve_unary_operators(Append(Top.token_stack, At(Top.result, Top.next)))
          = Reduced(Append(Top.token_stack, At(Top.result, Top.next)))

OnlyBinaryTrees ==
    /\ \A f \in 1..Len(frames) :
          /\ \A i \in 1..Len(frames[f].token_stack) :
                is_operand(frames[f].token_stack[i])
                    => AllBinary(frames[f].token_stack[i].tree)
          /\ \A i \in 1..Len(frames[f].result) :
                is_operand(frames[f].result[i])
                    => AllBinary(frames[f].result[i].tree)
    /\ outcome.kind = "Ok" => AllBinary(outcome.tree[1])
    /\ pc = "executed" => result.kind # "Panic"

\* every token is a number, an infix operator or a parenthesis, so that no
\* token is read differently by the parser and by the documentation
PlainTokens ==
    \A i \in 1..Len(tokens) :
        \/ IsNumberToken(tokens[i])
        \/ IsInfixToken(tokens[i])
        \/ tokens[i] \in {<<"(">>, <<")">>}

C12_StackAlternates ==
    /\ PlainTokens => \A f \in 1..Len(frames) : Alternates(frames[f].token_stack)
    /\ NoUnaryNode
    /\ OnlyBinaryTrees

C12_OperatorsOnOperands ==
    /\ \A f \in 1..Len(frames) : OperatorsOnOperands(frames[f].token_stack)
    /\ NoUnaryNode
    /\ OnlyBinaryTrees

C12_Witness ==
    /\ pc = "parsing"
    /\ Top.next > 0
    /\ \E i \in 1..Len(Top.token_stack) : is_operator(Top.token_stack[i])
    /\ \E i \in 2..Len(Top.token_stack) :
          is_operand(Top.token_stack[i - 1]) /\ is_operand(Top.token_stack[i])
    /\ OperatorsOnOperands(Top.token_stack)

====
